---- MODULE Spec2Model ----
(***************************************************************************)
(* A model of one process run of loki-logs (src/src/main.rs): main builds  *)
(* a Loki client from the user's certificate and key, get_logs posts one   *)
(* query to the Grafana proxy, parses the response, sorts the log lines by *)
(* timestamp and prints them.                                              *)
(*                                                                         *)
(* JSON values (serde_json::Value) are tagged records; Option::None is the *)
(* record None.  A JSON number that does not fit u64 or i64 is parsed by   *)
(* serde_json as a float, tag "float".  Strings that are only compared are *)
(* TLA+ strings; strings that are built (the label selector) are           *)
(* sequences of one-character strings.                                     *)
(***************************************************************************)
EXTENDS Integers, Sequences, FiniteSets, TLC

VARIABLES pc, env, certFile, keyFile, args, server,
          pem, identity, client, payload, netCalls, netFailed,
          text, json_response, log_lines, out, result, error

vars == <<pc, env, certFile, keyFile, args, server,
          pem, identity, client, payload, netCalls, netFailed,
          text, json_response, log_lines, out, result, error>>

\* ------------------------------------------------------------------ bounds
MaxLen == 3        \* longest timestamp / line array of a response
MaxTs == 2         \* largest timestamp value of a response
MaxBlobLen == 2    \* longest certificate / key file
MaxByte == 1       \* largest byte value of a file
MaxStrLen == 2     \* longest namespace / pod name

\* ------------------------------------------------------- program constants
PARITY_ZOMBIENET_UID == "PCF9DACBDF30E12B3"
DefaultLines == 1000
MaxEntriesLimit == 5000
DatasourceId == 24
IntervalMs == 500
MaxDataPoints == 1272
NoLogLines == "No log lines found in the response."

\* --------------------------------------------------------------- utilities
SeqsUpTo(S, n) == UNION {[1..k -> S] : k \in 0..n}

Min(a, b) == IF a < b THEN a ELSE b

\* ------------------------------------------------------------- JSON values
None == [t |-> "none"]
JNull == [t |-> "null"]
JNum(n) == [t |-> "num", n |-> n]
JFloat == [t |-> "float"]
JStr(s) == [t |-> "str", s |-> s]
JArr(a) == [t |-> "arr", a |-> a]
JObj(o) == [t |-> "obj", o |-> o]

\* Value::get(&str): the member of an object, None for anything else.
get(v, key) ==
    IF v.t = "obj" /\ key \in DOMAIN v.o THEN v.o[key] ELSE None

\* Value::get(usize): the element of an array (0-based), None otherwise.
get_index(v, i) ==
    IF v.t = "arr" /\ i + 1 \in DOMAIN v.a THEN v.a[i + 1] ELSE None

\* Value::as_array: the value itself when it is an array.
as_array(v) == IF v.t = "arr" THEN v ELSE None

\* Value::as_u64: Some(n) for a non-negative integer number.
as_u64(v) ==
    IF v.t = "num" /\ v.n >= 0 THEN [t |-> "some", v |-> v.n] ELSE None

\* Value::as_str
as_str(v) == IF v.t = "str" THEN [t |-> "some", v |-> v.s] ELSE None

\* --------------------------------------------------------- response bodies
\* A body is text: either text that is not JSON or the text of a document.
Garbage == [kind |-> "garbage"]
JsonText(doc) == [kind |-> "json", doc |-> doc]

\* serde_json::from_str
from_str(body) == IF body.kind = "json" THEN body.doc ELSE None

Data(d) ==
    JObj([results |-> JObj([A |-> JObj([frames |-> JArr(<<JObj([data |-> d])>>)])])])
FullDoc(v1, v2) == Data(JObj([values |-> JArr(<<JArr(<<>>), v1, v2>>)]))

TsVals == {JNum(n) : n \in 0..MaxTs} \cup {JNum(-1)}
OtherBadTs == {JStr("x"), JFloat, JNull}
LineVals == {JStr("a"), JStr("b"), JNum(7)}

\* Documents in which the log data is structurally absent.
AbsentDocs ==
    { JObj([message |-> JStr("e")]),
      JObj([results |-> JNum(0)]),
      JObj([results |-> JObj([B |-> JNull])]),
      JObj([results |-> JObj([A |-> JObj([status |-> JNum(200)])])]),
      JObj([results |-> JObj([A |-> JObj([frames |-> JArr(<<>>)])])]),
      JObj([results |-> JObj([A |-> JObj([frames |-> JArr(<<JObj([schema |-> JNull])>>)])])]),
      Data(JObj([nothing |-> JNull])),
      Data(JObj([values |-> JArr(<<>>)])),
      Data(JObj([values |-> JArr(<<JArr(<<>>)>>)])),
      Data(JObj([values |-> JArr(<<JArr(<<>>), JArr(<<JNum(1), JNum(0)>>)>>)])),
      Data(JObj([values |-> JObj([x |-> JNull])])) }

\* Documents with three entries under values, one of them not an array.
NonArrayDocs ==
    { FullDoc(JNull, JArr(<<JStr("a")>>)),
      FullDoc(JArr(<<JNum(0)>>), JStr("a")) }

\* Documents with a timestamp that is a string, out of range, or null.
BadTsDocs ==
    { FullDoc(JArr(v1), JArr(v2)) :
        v1 \in UNION {{<<b>>, <<JNum(1), b>>, <<b, JNum(0)>>} : b \in OtherBadTs},
        v2 \in {<<JStr("a")>>, <<JStr("b"), JStr("a")>>} }

FullDocs ==
    { FullDoc(JArr(v1), JArr(v2)) :
        v1 \in SeqsUpTo(TsVals, MaxLen), v2 \in SeqsUpTo(LineVals, MaxLen) }

Docs == AbsentDocs \cup NonArrayDocs \cup BadTsDocs \cup FullDocs
Bodies == {Garbage} \cup {JsonText(d) : d \in Docs}

SomeBody == JsonText(FullDoc(JArr(<<JNum(1), JNum(0)>>), JArr(<<JStr("b"), JStr("a")>>)))

\* Raw mode does not look into the document: one body of each kind.
RawBodies ==
    {Garbage, SomeBody} \cup {JsonText(d) : d \in AbsentDocs \cup NonArrayDocs \cup BadTsDocs}

\* ------------------------------------------------------------------- files
Unreadable == [ok |-> FALSE]
Readable(b) == [ok |-> TRUE, bytes |-> b]
Bytes == 0..MaxByte
Files == {Unreadable} \cup {Readable(b) : b \in SeqsUpTo(Bytes, MaxBlobLen)}
SomeFile == Readable(<<0>>)

\* -------------------------------------------------------------- arguments
Chars == {"a", "\"", "}"}
Strs == SeqsUpTo(Chars, MaxStrLen)
SomeArgs == [namespace |-> <<"a">>, pod |-> <<"a">>, lines |-> DefaultLines,
             from |-> "now-24h", to |-> "now", raw |-> FALSE]
GoodEnv == [HOME |-> TRUE, USER |-> TRUE]

\* ----------------------------------------------------------- query payload
ExprPrefix == <<"{", "n", "a", "m", "e", "s", "p", "a", "c", "e", "=", "\"">>
ExprInfix == <<"\"", ",", " ", "p", "o", "d", "=", "\"">>
ExprSuffix == <<"\"", "}">>

RECURSIVE escape(_)
escape(str) ==
    IF str = <<>> THEN <<>>
    ELSE (IF Head(str) = "\"" THEN <<"\\", "\"">> ELSE <<Head(str)>>) \o escape(Tail(str))

\* A builder that escapes the quotes of the two names.
expr_escaped(namespace, pod) ==
    ExprPrefix \o escape(namespace) \o ExprInfix \o escape(pod) \o ExprSuffix

\* format!("{{namespace=\"{}\", pod=\"{}\"}}", namespace, pod)
expr(namespace, pod) ==
    ExprPrefix \o namespace \o ExprInfix \o pod \o ExprSuffix

\* json!({ "queries": [ { ... } ], "from": from, "to": to })
body(a) ==
    [queries |-> <<[refId |-> "A",
                    expr |-> expr(a.namespace, a.pod),
                    queryType |-> "range",
                    datasource |-> [type |-> "loki", uid |-> PARITY_ZOMBIENET_UID],
                    direction |-> "forward",
                    maxLines |-> a.lines,
                    format |-> "log",
                    step |-> "",
                    datasourceId |-> DatasourceId,
                    intervalMs |-> IntervalMs,
                    maxDataPoints |-> MaxDataPoints]>>,
     from |-> a.from,
     to |-> a.to]

\* ------------------------------------------------------ pairing and sorting
\* A pairing that runs to the longer length, padding with null.
zip_longest(timestamps, lines) ==
    LET n == IF Len(timestamps) > Len(lines) THEN Len(timestamps) ELSE Len(lines)
    IN  [i \in 1..n |->
            [ts |-> IF i <= Len(timestamps) THEN timestamps[i] ELSE JNull,
             line |-> IF i <= Len(lines) THEN lines[i] ELSE JNull]]

\* Iterator::zip: pairs position by position, as long as both sides last.
zip(timestamps, lines) ==
    [i \in 1..Min(Len(timestamps), Len(lines)) |->
        [ts |-> timestamps[i], line |-> lines[i]]]

\* The sort key of a pair: tstamp.as_u64().unwrap()
key(p) == as_u64(p.ts).v

\* A sort step that is not stable: x goes before the elements of equal key.
insert_by_key_unstable(sorted, x) ==
    LET k == Cardinality({i \in 1..Len(sorted) : key(sorted[i]) < key(x)})
    IN  SubSeq(sorted, 1, k) \o <<x>> \o SubSeq(sorted, k + 1, Len(sorted))

\* One step of the stable sort: x goes behind every element whose key is
\* not greater than its own.
insert_by_key(sorted, x) ==
    LET k == Cardinality({i \in 1..Len(sorted) : key(sorted[i]) <= key(x)})
    IN  SubSeq(sorted, 1, k) \o <<x>> \o SubSeq(sorted, k + 1, Len(sorted))

RECURSIVE stable_sort(_)
stable_sort(s) ==
    IF Len(s) < 2 THEN s
    ELSE insert_by_key(stable_sort(SubSeq(s, 1, Len(s) - 1)), s[Len(s)])

\* Itertools::sorted_by_key with the unwrapping key: Vec::sort_by_key does
\* not call the key function on fewer than two elements and calls it on
\* every element otherwise, so the unwrap panics exactly when there are two
\* or more pairs and one of their timestamps is not a u64.
sorted_by_key(pairs) ==
    IF Len(pairs) >= 2 /\ \E i \in 1..Len(pairs) : as_u64(pairs[i].ts) = None
    THEN [t |-> "panic"]
    ELSE [t |-> "some", v |-> stable_sort(pairs)]

\* The chain of lookups results -> "A" -> frames[0] -> data -> values.
values_of(doc) ==
    get(get(get_index(get(get(get(doc, "results"), "A"), "frames"), 0), "data"), "values")

\* A lookup of values[0] and values[1] in place of values[1] and values[2].
arrays_of_shifted(doc) ==
    LET values == values_of(doc)
        v1 == as_array(get_index(values, 0))
        v2 == as_array(get_index(values, 1))
    IN  IF v1 = None \/ v2 = None THEN None
        ELSE [t |-> "some", timestamps |-> v1.a, lines |-> v2.a]

\* values[1] and values[2], both as arrays, or None.
arrays_of(doc) ==
    LET values == values_of(doc)
        v1 == as_array(get_index(values, 1))
        v2 == as_array(get_index(values, 2))
    IN  IF v1 = None \/ v2 = None THEN None
        ELSE [t |-> "some", timestamps |-> v1.a, lines |-> v2.a]

\* The texts printed for the sorted lines: non-strings are skipped.
printed(lines) ==
    LET IsStr(v) == as_str(v) # None
        strs == SelectSeq(lines, IsStr)
    IN  [i \in 1..Len(strs) |-> [line |-> as_str(strs[i]).v]]

\* ------------------------------------------------------------------- state
InitRun ==
    /\ pc = "get_identity"
    /\ pem = <<>>
    /\ identity = None
    /\ client = FALSE
    /\ payload = None
    /\ netCalls = 0
    /\ netFailed = FALSE
    /\ text = None
    /\ json_response = None
    /\ log_lines = None
    /\ out = <<>>
    /\ result = "running"
    /\ error = "none"

\* Runs over every response body.
InitResponses ==
    /\ env = GoodEnv
    /\ certFile = SomeFile
    /\ keyFile = SomeFile
    /\ args = SomeArgs
    /\ server \in Bodies

\* Runs with --raw.
InitRaw ==
    /\ env = GoodEnv
    /\ certFile = SomeFile
    /\ keyFile = SomeFile
    /\ args = [SomeArgs EXCEPT !.raw = TRUE]
    /\ server \in RawBodies

\* Runs over every environment and every certificate and key file.
InitIdentity ==
    /\ env \in [HOME : BOOLEAN, USER : BOOLEAN]
    /\ certFile \in Files
    /\ keyFile \in Files
    /\ args = SomeArgs
    /\ server = SomeBody

\* Runs over every query.
InitQuery ==
    /\ env = GoodEnv
    /\ certFile = SomeFile
    /\ keyFile = SomeFile
    /\ args \in [namespace : Strs, pod : Strs,
                 lines : {0, DefaultLines, MaxEntriesLimit},
                 from : {"now-24h"}, to : {"now"}, raw : {FALSE}]
    /\ server = SomeBody

Init == InitRun /\ (InitResponses \/ InitRaw \/ InitIdentity \/ InitQuery)

\* The run ends with r; e names the error.
Finish(r, e) ==
    /\ pc' = "done"
    /\ result' = r
    /\ error' = e

Goto(l) ==
    /\ pc' = l
    /\ UNCHANGED <<result, error>>

\* ------------------------------------------------------------ get_identity
\* env::var("HOME").expect(..), env::var("USER").expect(..)
get_identity_env ==
    /\ pc = "get_identity"
    /\ IF env.HOME /\ env.USER THEN Goto("read_cert") ELSE Finish("panic", "env")
    /\ UNCHANGED <<env, certFile, keyFile, args, server, pem, identity, client,
                   payload, netCalls, netFailed, text, json_response, log_lines, out>>

\* let mut pem = fs::read(cert_path)?;
read_cert ==
    /\ pc = "read_cert"
    /\ IF certFile.ok
       THEN pem' = certFile.bytes /\ Goto("read_key")
       ELSE UNCHANGED pem /\ Finish("err", "io")
    /\ UNCHANGED <<env, certFile, keyFile, args, server, identity, client,
                   payload, netCalls, netFailed, text, json_response, log_lines, out>>

\* An append that puts the key bytes in front.
append_front(v, other) == other \o v

\* Vec::append: the key bytes go behind the certificate bytes.
append(v, other) == v \o other

\* let mut key_pem = fs::read(key_path)?; pem.append(&mut key_pem);
read_key ==
    /\ pc = "read_key"
    /\ IF keyFile.ok
       THEN pem' = append(pem, keyFile.bytes) /\ Goto("from_pem")
       ELSE UNCHANGED pem /\ Finish("err", "io")
    /\ UNCHANGED <<env, certFile, keyFile, args, server, identity, client,
                   payload, netCalls, netFailed, text, json_response, log_lines, out>>

\* let identity = Identity::from_pem(&pem)?;  Whether the blob is a valid
\* certificate and key is the TLS library's verdict.
from_pem ==
    /\ pc = "from_pem"
    /\ \E valid \in BOOLEAN :
         IF valid
         THEN identity' = [t |-> "some", pem |-> pem] /\ Goto("build")
         ELSE UNCHANGED identity /\ Finish("err", "tls")
    /\ UNCHANGED <<env, certFile, keyFile, args, server, pem, client,
                   payload, netCalls, netFailed, text, json_response, log_lines, out>>

\* ---------------------------------------------------------------- Loki::new
\* Client::builder().use_rustls_tls().identity(identity).timeout(..).build()?
build ==
    /\ pc = "build"
    /\ \E built \in BOOLEAN :
         IF built
         THEN client' = TRUE /\ Goto("send")
         ELSE UNCHANGED client /\ Finish("err", "build")
    /\ UNCHANGED <<env, certFile, keyFile, args, server, pem, identity,
                   payload, netCalls, netFailed, text, json_response, log_lines, out>>

\* ----------------------------------------------------------- Loki::get_logs
\* A send that tries a second time after a failure.
send_retry ==
    /\ pc = "send"
    /\ payload' = body(args)
    /\ netCalls' = netCalls + 1
    /\ \E sent \in BOOLEAN :
         IF sent
         THEN UNCHANGED netFailed /\ Goto("text")
         ELSE IF netCalls < 1
              THEN UNCHANGED netFailed /\ Goto("send")
              ELSE netFailed' = TRUE /\ Finish("err", "network")
    /\ UNCHANGED <<env, certFile, keyFile, args, server, pem, identity, client,
                   text, json_response, log_lines, out>>

\* self.client.post(..).header(..).header(..).json(&body).send()?
send ==
    /\ pc = "send"
    /\ payload' = body(args)
    /\ netCalls' = netCalls + 1
    /\ \E sent \in BOOLEAN :
         IF sent
         THEN UNCHANGED netFailed /\ Goto("text")
         ELSE netFailed' = TRUE /\ Finish("err", "network")
    /\ UNCHANGED <<env, certFile, keyFile, args, server, pem, identity, client,
                   text, json_response, log_lines, out>>

\* let text = res.text()?;
read_text ==
    /\ pc = "text"
    /\ \E received \in BOOLEAN :
         IF received
         THEN text' = server /\ UNCHANGED netFailed /\ Goto("parse")
         ELSE UNCHANGED text /\ netFailed' = TRUE /\ Finish("err", "network")
    /\ UNCHANGED <<env, certFile, keyFile, args, server, pem, identity, client,
                   payload, netCalls, json_response, log_lines, out>>

\* A parse step behind a raw print: the body is shown, then parsed.
parse_print_first ==
    /\ pc = "parse"
    /\ out' = IF args.raw THEN Append(out, [raw |-> text]) ELSE out
    /\ IF from_str(text) # None
       THEN json_response' = from_str(text) /\ Goto("raw")
       ELSE UNCHANGED json_response /\ Finish("err", "parse")
    /\ UNCHANGED <<env, certFile, keyFile, args, server, pem, identity, client,
                   payload, netCalls, netFailed, text, log_lines>>

\* let json_response: Value = serde_json::from_str(&text)?;
parse ==
    /\ pc = "parse"
    /\ IF from_str(text) # None
       THEN json_response' = from_str(text) /\ Goto("raw")
       ELSE UNCHANGED json_response /\ Finish("err", "parse")
    /\ UNCHANGED <<env, certFile, keyFile, args, server, pem, identity, client,
                   payload, netCalls, netFailed, text, log_lines, out>>

\* if raw { println!("{}", text); return Ok(()); }
raw_print ==
    /\ pc = "raw"
    /\ IF args.raw
       THEN out' = Append(out, [raw |-> text]) /\ Finish("ok", "none")
       ELSE UNCHANGED out /\ Goto("extract")
    /\ UNCHANGED <<env, certFile, keyFile, args, server, pem, identity, client,
                   payload, netCalls, netFailed, text, json_response, log_lines>>

\* The if-let scrutinee: the lookups, then zip, sort and collect the lines.
extract ==
    /\ pc = "extract"
    /\ LET found == arrays_of(json_response)
       IN  IF found = None
           THEN UNCHANGED log_lines /\ Goto("print")
           ELSE LET sorted == sorted_by_key(zip(found.timestamps, found.lines))
                IN  IF sorted.t = "panic"
                    THEN UNCHANGED log_lines /\ Finish("panic", "unwrap")
                    ELSE /\ log_lines' =
                              [t |-> "some",
                               v |-> [i \in 1..Len(sorted.v) |-> sorted.v[i].line]]
                         /\ Goto("print")
    /\ UNCHANGED <<env, certFile, keyFile, args, server, pem, identity, client,
                   payload, netCalls, netFailed, text, json_response, out>>

\* The two branches of the if-let, then Ok(()).
print ==
    /\ pc = "print"
    /\ IF log_lines # None
       THEN out' = out \o printed(log_lines.v)
       ELSE out' = Append(out, [line |-> NoLogLines])
    /\ Finish("ok", "none")
    /\ UNCHANGED <<env, certFile, keyFile, args, server, pem, identity, client,
                   payload, netCalls, netFailed, text, json_response, log_lines>>

Next ==
    \/ get_identity_env
    \/ read_cert
    \/ read_key
    \/ from_pem
    \/ build
    \/ send
    \/ read_text
    \/ parse
    \/ raw_print
    \/ extract
    \/ print

Spec == Init /\ [][Next]_vars

\* ================================================================ properties
\* The structure of a response document, read off the document itself.
PathPresent(doc) ==
    /\ doc.t = "obj" /\ "results" \in DOMAIN doc.o
    /\ LET r == doc.o.results IN r.t = "obj" /\ "A" \in DOMAIN r.o
    /\ LET a == doc.o.results.o.A IN a.t = "obj" /\ "frames" \in DOMAIN a.o
    /\ LET f == doc.o.results.o.A.o.frames IN f.t = "arr" /\ Len(f.a) >= 1
    /\ LET fr == doc.o.results.o.A.o.frames.a[1] IN fr.t = "obj" /\ "data" \in DOMAIN fr.o
    /\ LET d == doc.o.results.o.A.o.frames.a[1].o.data IN d.t = "obj" /\ "values" \in DOMAIN d.o

ValuesNode(doc) == doc.o.results.o.A.o.frames.a[1].o.data.o.values

ThreeEntries(doc) ==
    /\ PathPresent(doc)
    /\ ValuesNode(doc).t = "arr"
    /\ Len(ValuesNode(doc).a) >= 3

BothArrays(doc) ==
    /\ ThreeEntries(doc)
    /\ ValuesNode(doc).a[2].t = "arr"
    /\ ValuesNode(doc).a[3].t = "arr"

TsOf(doc) == ValuesNode(doc).a[2].a
LinesOf(doc) == ValuesNode(doc).a[3].a

IsU64(v) == v.t = "num" /\ v.n >= 0

\* The run is over, was not in raw mode, and got a JSON body.
ParsedRun ==
    /\ pc = "done"
    /\ ~args.raw
    /\ text # None
    /\ server.kind = "json"

\* The orders of n positions that are ascending by timestamp and keep the
\* input order among equal timestamps.
StableOrders(ts, n) ==
    {p \in [1..n -> 1..n] :
        /\ \A i, j \in 1..n : i # j => p[i] # p[j]
        /\ \A i, j \in 1..n : i < j =>
              \/ ts[p[i]].n < ts[p[j]].n
              \/ ts[p[i]].n = ts[p[j]].n /\ p[i] < p[j]}

OnlyStrings(lines) ==
    LET Str(v) == v.t = "str"
        strs == SelectSeq(lines, Str)
    IN  [i \in 1..Len(strs) |-> [line |-> strs[i].s]]

\* C1: in raw mode the body is printed as received and the run succeeds,
\* whatever the body is, JSON or not.
C1_RawPrintsAnyBody ==
    (pc = "done" /\ args.raw /\ text # None)
        => (result = "ok" /\ out = <<[raw |-> server]>>)

C3_BadTimestampIsError ==
    (/\ ParsedRun
     /\ BothArrays(server.doc)
     /\ \E i \in 1..Min(Len(TsOf(server.doc)), Len(LinesOf(server.doc))) :
           ~IsU64(TsOf(server.doc)[i]))
    => result = "err"

\* C4: an empty ordered log, whether the path is missing or the paired arrays
\* are empty, prints exactly the one notice line.
C4_EmptyLogPrintsNotice ==
    (/\ ParsedRun
     /\ \/ ~BothArrays(server.doc)
        \/ Min(Len(TsOf(server.doc)), Len(LinesOf(server.doc))) = 0)
    => out = <<[line |-> NoLogLines]>>

\* C5: a JSON response with a node of the path missing, or with fewer than
\* three entries under values, ends in success with the empty result.
C5_AbsentDataIsSuccess ==
    (ParsedRun /\ ~ThreeEntries(server.doc))
        => (result = "ok" /\ error = "none" /\ out = <<[line |-> NoLogLines]>>)

C5_Witness ==
    /\ ParsedRun
    /\ result = "ok"
    /\ PathPresent(server.doc)
    /\ ValuesNode(server.doc).t = "arr"
    /\ Len(ValuesNode(server.doc).a) = 2

\* C6: arrays of different lengths are paired over the shorter length only;
\* the surplus is neither examined nor printed and the mismatch is no error.
C6_PairsUpToShorter ==
    (/\ ParsedRun
     /\ BothArrays(server.doc)
     /\ Len(TsOf(server.doc)) # Len(LinesOf(server.doc)))
    => LET ts == TsOf(server.doc)
           ln == LinesOf(server.doc)
           n == Min(Len(ts), Len(ln))
       IN  /\ result # "err"
           /\ (\A i \in 1..n : IsU64(ts[i])) =>
                 /\ result = "ok"
                 /\ \E p \in StableOrders(ts, n) :
                       out = OnlyStrings([i \in 1..n |-> ln[p[i]]])

C6_Witness ==
    /\ ParsedRun
    /\ result = "ok"
    /\ BothArrays(server.doc)
    /\ LET ts == TsOf(server.doc)
           ln == LinesOf(server.doc)
       IN  /\ Len(ts) = 3 /\ Len(ln) = 2
           /\ IsU64(ts[1]) /\ IsU64(ts[2]) /\ ~IsU64(ts[3])
           /\ Len(out) = 2

\* C7: a run that fails has printed nothing.
C7_NoOutputOnFailure ==
    result \in {"err", "panic"} => out = <<>>

C7_Witness ==
    /\ pc = "done"
    /\ result = "err"
    /\ error = "parse"
    /\ text = Garbage

\* C8: at most one network call, only with an identity loaded, exactly one
\* when identity loading succeeded, and a failed call is not retried but
\* ends the run with an error.
C8_OneCallAfterIdentity ==
    /\ netCalls <= 1
    /\ netCalls >= 1 => identity # None
    /\ (pc = "done" /\ identity # None) => netCalls = 1
    /\ netFailed => (pc = "done" /\ result = "err" /\ netCalls = 1)

\* C8 as amended: exactly one call when the identity was loaded and the
\* client was built.
C8_OneCallAfterClient ==
    /\ netCalls <= 1
    /\ netCalls >= 1 => (identity # None /\ client)
    /\ (pc = "done" /\ identity # None /\ client) => netCalls = 1
    /\ (pc = "done" /\ ~client) => netCalls = 0
    /\ netFailed => (pc = "done" /\ result = "err" /\ netCalls = 1)

C8_Witness ==
    /\ pc = "done"
    /\ netFailed
    /\ netCalls = 1
    /\ payload # None
    /\ text = None

\* C9: the blob handed to the identity parser is the certificate bytes
\* followed by the key bytes, nothing else.
C9_BlobIsCertThenKey ==
    (pc = "from_pem" \/ identity # None)
    => LET blob == IF identity # None THEN identity.pem ELSE pem
           c == certFile.bytes
           k == keyFile.bytes
       IN  /\ Len(blob) = Len(c) + Len(k)
           /\ \A i \in 1..Len(c) : blob[i] = c[i]
           /\ \A j \in 1..Len(k) : blob[Len(c) + j] = k[j]

C9_Witness ==
    /\ identity # None
    /\ Len(certFile.bytes) = 2
    /\ Len(keyFile.bytes) >= 1
    /\ certFile.bytes[1] # keyFile.bytes[1]

\* C10: the payload carries the caller's line cap and the label selector
\* {namespace="<ns>", pod="<pod>"} with both names verbatim; every other
\* field is fixed, so equal queries give equal payloads.
C10_PayloadFromQuery ==
    payload # None
    => LET q == payload.queries[1]
           ns == args.namespace
           pd == args.pod
       IN  /\ Len(payload.queries) = 1
           /\ q.maxLines = args.lines
           /\ Len(q.expr) = 12 + Len(ns) + 8 + Len(pd) + 2
           /\ SubSeq(q.expr, 1, 12) = ExprPrefix
           /\ SubSeq(q.expr, 13, 12 + Len(ns)) = ns
           /\ SubSeq(q.expr, 13 + Len(ns), 20 + Len(ns)) = ExprInfix
           /\ SubSeq(q.expr, 21 + Len(ns), 20 + Len(ns) + Len(pd)) = pd
           /\ SubSeq(q.expr, 21 + Len(ns) + Len(pd), Len(q.expr)) = ExprSuffix
           /\ payload.from = args.from
           /\ payload.to = args.to
           /\ q.refId = "A" /\ q.queryType = "range" /\ q.direction = "forward"
           /\ q.format = "log" /\ q.datasource.uid = PARITY_ZOMBIENET_UID

C10_Witness ==
    /\ payload # None
    /\ args.lines = MaxEntriesLimit
    /\ Len(args.namespace) = 2
    /\ args.namespace[1] = "\""
    /\ Len(args.pod) >= 1
    /\ args.pod[1] = "}"

====
